---- MODULE Spec2Model ----
(***************************************************************************)
(* Model of the travel-records programs:                                   *)
(*   clean_travel_data.py  - the batch cleaning script (one run = one      *)
(*                           action, RunClean);                            *)
(*   travel_gui_app.py     - the Tkinter session (one action per handler). *)
(* Both read CSV files from the same directory, modelled by `disk`.        *)
(*                                                                         *)
(* Cells.  A text cell is a sequence of one-character strings.  A missing  *)
(* cell (pandas NaN / NaT; read_csv yields it for an empty field) is the   *)
(* empty sequence.  A date cell as read from a CSV is the triple           *)
(* <<year, month, day>> of the fields written in the file; a parsed date   *)
(* (pandas Timestamp) is the 1-tuple <<n>>, n the proleptic Gregorian day  *)
(* number.  Identifiers are integers.                                      *)
(***************************************************************************)
EXTENDS Integers, Sequences, FiniteSets, TLC

VARIABLES
    disk,            \* file name -> file ([exists, columns, rows])
    script_exit,     \* outcome of the last run of clean_travel_data.py
    pc,              \* the GUI process: "startup" (before load_default_csvs) or "mainloop"
    travelers,       \* travel_gui_app.py global DataFrame
    travels,         \* travel_gui_app.py global DataFrame
    traveler_combo,  \* traveler_combo["values"]
    traveler_var,    \* traveler_var (the selected name)
    frame_records,   \* the labels packed in frame_records
    current_fig,     \* the chart held by current_fig / frame_chart
    messagebox       \* the last message box shown

vars == <<disk, script_exit, pc, travelers, travels, traveler_combo,
          traveler_var, frame_records, current_fig, messagebox>>

gui_vars == <<pc, travelers, travels, traveler_combo, traveler_var,
              frame_records, current_fig, messagebox>>

-----------------------------------------------------------------------------
(* Bounds of the model *)

MaxRows == 2

Ids == {1, 2}

-----------------------------------------------------------------------------
(* Text: str.title, str.capitalize *)

LowerCase == <<"a","b","c","d","e","f","g","h","i","j","k","l","m",
               "n","o","p","q","r","s","t","u","v","w","x","y","z">>

UpperCase == <<"A","B","C","D","E","F","G","H","I","J","K","L","M",
               "N","O","P","Q","R","S","T","U","V","W","X","Y","Z">>

IsLower(c) == \E i \in DOMAIN LowerCase : LowerCase[i] = c
IsUpper(c) == \E i \in DOMAIN UpperCase : UpperCase[i] = c
IsCased(c) == IsLower(c) \/ IsUpper(c)

ToUpper(c) ==
    IF IsLower(c) THEN UpperCase[CHOOSE i \in DOMAIN LowerCase : LowerCase[i] = c] ELSE c

ToLower(c) ==
    IF IsUpper(c) THEN LowerCase[CHOOSE i \in DOMAIN UpperCase : UpperCase[i] = c] ELSE c

\* str.title(): a cased character is upper-cased when the character before it
\* is not cased (or there is none) and lower-cased otherwise.
Title(s) ==
    [i \in 1..Len(s) |->
        IF i > 1 /\ IsCased(s[i-1]) THEN ToLower(s[i]) ELSE ToUpper(s[i])]

\* str.capitalize(): first character upper-cased, the rest lower-cased.
Capitalize(s) ==
    [i \in 1..Len(s) |-> IF i = 1 THEN ToUpper(s[i]) ELSE ToLower(s[i])]

NaN == <<>>
NaT == <<>>

Unknown == <<"U","n","k","n","o","w","n">>

UnknownEmail == <<"u","n","k","n","o","w","n","@","e","x","a","m","p","l","e",
                  ".","c","o","m">>

\* Series.fillna(value)
Fillna(v, value) == IF v = NaN THEN value ELSE v

-----------------------------------------------------------------------------
(* Dates: pd.to_datetime(errors="coerce"), Timestamp.date(), to_csv *)

IsLeap(y) == y % 4 = 0 /\ (y % 100 # 0 \/ y % 400 = 0)

DaysInMonth(y, m) ==
    IF m = 2 /\ IsLeap(y) THEN 29
    ELSE <<31, 28, 31, 30, 31, 30, 31, 31, 30, 31, 30, 31>>[m]

RECURSIVE DaysBeforeMonth(_, _)
DaysBeforeMonth(y, m) ==
    IF m = 1 THEN 0 ELSE DaysBeforeMonth(y, m - 1) + DaysInMonth(y, m - 1)

DaysBeforeYear(y) ==
    LET p == y - 1 IN p * 365 + (p \div 4) - (p \div 100) + (p \div 400)

ValidDate(s) ==
    /\ Len(s) = 3
    /\ s[1] >= 1
    /\ s[2] \in 1..12
    /\ s[3] >= 1 /\ s[3] <= DaysInMonth(s[1], s[2])

Ordinal(s) == DaysBeforeYear(s[1]) + DaysBeforeMonth(s[1], s[2]) + s[3]

\* pd.to_datetime(column, errors="coerce") on one cell of a column read from a CSV
ToDatetime(s) == IF s # NaN /\ ValidDate(s) THEN <<Ordinal(s)>> ELSE NaT

\* IsoDate with day and month exchanged (a YYYY-DD-MM rendering)
IsoDateDayFirst(ts) ==
    LET n == ts[1]
        y == CHOOSE yy \in (n \div 366)..(n \div 365 + 1) :
                 DaysBeforeYear(yy) < n /\ n <= DaysBeforeYear(yy + 1)
        r == n - DaysBeforeYear(y)
        m == CHOOSE mm \in 1..12 :
                 DaysBeforeMonth(y, mm) < r /\ r <= DaysBeforeMonth(y, mm) + DaysInMonth(y, mm)
    IN  <<y, r - DaysBeforeMonth(y, m), m>>

\* The calendar date of a Timestamp, as to_csv and Timestamp.date() render it
IsoDate(ts) ==
    LET n == ts[1]
        y == CHOOSE yy \in (n \div 366)..(n \div 365 + 1) :
                 DaysBeforeYear(yy) < n /\ n <= DaysBeforeYear(yy + 1)
        r == n - DaysBeforeYear(y)
        m == CHOOSE mm \in 1..12 :
                 DaysBeforeMonth(y, mm) < r /\ r <= DaysBeforeMonth(y, mm) + DaysInMonth(y, mm)
    IN  <<y, m, r - DaysBeforeMonth(y, m)>>

-----------------------------------------------------------------------------
(* Files and DataFrames *)

TravelerFile == "travelers.csv"
TravelFile == "travels.csv"
CleanedTravelerFile == "travelers_cleaned.csv"
CleanedTravelFile == "travels_cleaned.csv"

FileNames == {TravelerFile, TravelFile, CleanedTravelerFile, CleanedTravelFile}

TravelerColumns == {"traveler_id", "name", "email", "phone", "passport_number"}

TravelColumns == {"travel_id", "traveler_id", "destination", "departure_date",
                  "return_date", "purpose"}

Absent == [exists |-> FALSE, columns |-> {}, rows |-> <<>>]

File(columns, rows) == [exists |-> TRUE, columns |-> columns, rows |-> rows]

\* pd.DataFrame()
EmptyDataFrame == [columns |-> {}, rows |-> <<>>]

\* pd.read_csv(path): the header row and the records; cells stay as written
ReadCsv(f) == [columns |-> f.columns, rows |-> f.rows]

\* DataFrame.empty
IsEmpty(df) == df.columns = {} \/ df.rows = <<>>

\* The rows of `rows` at the indices in `keep`, in order
RECURSIVE TakeFrom(_, _, _)
TakeFrom(rows, keep, i) ==
    IF i > Len(rows) THEN <<>>
    ELSE (IF i \in keep THEN <<rows[i]>> ELSE <<>>) \o TakeFrom(rows, keep, i + 1)

Take(rows, keep) == TakeFrom(rows, keep, 1)

-----------------------------------------------------------------------------
(* clean_travel_data.py: the cleaning steps *)

\* travelers.drop_duplicates(subset=['traveler_id', 'email']): the first row of
\* each (traveler_id, email) pair is kept; two missing emails count as equal.
DropDuplicatesTravelers(rows) ==
    Take(rows, {i \in 1..Len(rows) :
                  \A j \in 1..(i-1) :
                     <<rows[j].traveler_id, rows[j].email>> #
                     <<rows[i].traveler_id, rows[i].email>>})

\* travelers['name'].fillna('Unknown').str.title()
FillName(rows) ==
    [i \in 1..Len(rows) |-> [rows[i] EXCEPT !.name = Title(Fillna(@, Unknown))]]

\* the fills of email, phone and passport_number
FillContact(rows) ==
    [i \in 1..Len(rows) |->
        [rows[i] EXCEPT !.email = Fillna(@, UnknownEmail),
                        !.phone = Fillna(@, Unknown),
                        !.passport_number = Fillna(@, Unknown)]]

NormalizeTravelers(rows) == FillContact(FillName(DropDuplicatesTravelers(rows)))

\* travels.drop_duplicates(subset=['travel_id'])
DropDuplicatesTravels(rows) ==
    Take(rows, {i \in 1..Len(rows) :
                  \A j \in 1..(i-1) : rows[j].travel_id # rows[i].travel_id})

\* destination: fillna('Unknown').str.title(); purpose: fillna('Unknown').str.capitalize()
FillText(rows) ==
    [i \in 1..Len(rows) |->
        [rows[i] EXCEPT !.destination = Title(Fillna(@, Unknown)),
                        !.purpose = Capitalize(Fillna(@, Unknown))]]

\* pd.to_datetime(..., errors='coerce') on departure_date and return_date
ConvertDates(rows) ==
    [i \in 1..Len(rows) |->
        [rows[i] EXCEPT !.departure_date = ToDatetime(@),
                        !.return_date = ToDatetime(@)]]

\* dropna(subset=['departure_date', 'return_date'])
DropnaDates(rows) ==
    Take(rows, {i \in 1..Len(rows) :
                  rows[i].departure_date # NaT /\ rows[i].return_date # NaT})

\* travels[travels['return_date'] >= travels['departure_date']]
ReturnNotBeforeDeparture(rows) ==
    Take(rows, {i \in 1..Len(rows) :
                  rows[i].return_date[1] >= rows[i].departure_date[1]})

\* The sort key order of sort_values(by=['traveler_id', 'departure_date'])
KeyLess(a, b) ==
    \/ a.traveler_id < b.traveler_id
    \/ /\ a.traveler_id = b.traveler_id
       /\ a.departure_date[1] < b.departure_date[1]

\* Insert made unstable: the row goes in front of the rows with an equal key
RECURSIVE InsertBeforeEqual(_, _)
InsertBeforeEqual(sorted, r) ==
    IF sorted = <<>> THEN <<r>>
    ELSE IF KeyLess(sorted[Len(sorted)], r)
         THEN Append(sorted, r)
         ELSE Append(InsertBeforeEqual(SubSeq(sorted, 1, Len(sorted) - 1), r),
                     sorted[Len(sorted)])

\* Inserting a row into sorted rows: behind every row whose key is not greater
\* (sort_values on several columns is a stable lexsort)
RECURSIVE Insert(_, _)
Insert(sorted, r) ==
    IF sorted = <<>> THEN <<r>>
    ELSE IF KeyLess(r, sorted[Len(sorted)])
         THEN Append(Insert(SubSeq(sorted, 1, Len(sorted) - 1), r),
                     sorted[Len(sorted)])
         ELSE Append(sorted, r)

RECURSIVE SortValues(_)
SortValues(rows) ==
    IF rows = <<>> THEN <<>>
    ELSE Insert(SortValues(SubSeq(rows, 1, Len(rows) - 1)), rows[Len(rows)])

\* NormalizeTrips with its steps in the wrong order: the rows with bad dates or
\* an inverted range are dropped before the duplicates are
NormalizeTripsValidateFirst(rows) ==
    SortValues(DropDuplicatesTravels(
        ReturnNotBeforeDeparture(DropnaDates(ConvertDates(FillText(rows))))))

NormalizeTrips(rows) ==
    SortValues(ReturnNotBeforeDeparture(DropnaDates(ConvertDates(
        FillText(DropDuplicatesTravels(rows))))))

\* travelers.to_csv(cleaned_travelers_file, index=False)
ToCsvTravelers(df) == File(df.columns, df.rows)

\* travels.to_csv(cleaned_travels_file, index=False): the dates as YYYY-MM-DD
ToCsvTravels(df) ==
    File(df.columns,
         [i \in 1..Len(df.rows) |->
             [df.rows[i] EXCEPT !.departure_date = IsoDate(@),
                                !.return_date = IsoDate(@)]])

\* What one run of the script writes for a travelers file / a travels file
CleanTravelersFile(f) ==
    ToCsvTravelers([columns |-> f.columns, rows |-> NormalizeTravelers(ReadCsv(f).rows)])

CleanTravelsFile(f) ==
    ToCsvTravels([columns |-> f.columns, rows |-> NormalizeTrips(ReadCsv(f).rows)])

\* One run of clean_travel_data.py
RunClean ==
    /\ IF ~disk[TravelerFile].exists \/ ~disk[TravelFile].exists
       THEN \* exit(1)
            /\ script_exit' = "missing"
            /\ disk' = disk
       ELSE IF ~(TravelerColumns \subseteq disk[TravelerFile].columns)
               \/ ~(TravelColumns \subseteq disk[TravelFile].columns)
       THEN \* a column lookup raises KeyError before anything is saved
            /\ script_exit' = "KeyError"
            /\ disk' = disk
       ELSE /\ script_exit' = "ok"
            /\ disk' = [disk EXCEPT
                          ![CleanedTravelerFile] = CleanTravelersFile(disk[TravelerFile]),
                          ![CleanedTravelFile] = CleanTravelsFile(disk[TravelFile])]
    /\ UNCHANGED gui_vars

-----------------------------------------------------------------------------
(* travel_gui_app.py *)

NoFig == [shown |-> FALSE, title |-> <<>>, bars |-> <<>>]

NoMessage == <<>>

GuiTravelerColumns == {"traveler_id", "name"}

ColumnValues(rows) == [i \in 1..Len(rows) |-> rows[i].name]

\* TravelersLoaded without the reset of line 59: the frame read stays held
TravelersLoadedKeepsRead(f) ==
    IF GuiTravelerColumns \subseteq ReadCsv(f).columns
    THEN [columns |-> ReadCsv(f).columns, rows |-> FillName(ReadCsv(f).rows)]
    ELSE ReadCsv(f)

\* load_travelers_csv on an existing file: the new values of travelers,
\* traveler_combo["values"] and the message shown.  A rejected file empties
\* travelers and leaves traveler_combo["values"] as it was.
TravelersLoaded(f) ==
    IF GuiTravelerColumns \subseteq ReadCsv(f).columns
    THEN [columns |-> ReadCsv(f).columns, rows |-> FillName(ReadCsv(f).rows)]
    ELSE EmptyDataFrame

ComboLoaded(f, values) ==
    IF GuiTravelerColumns \subseteq ReadCsv(f).columns
    THEN ColumnValues(TravelersLoaded(f).rows)
    ELSE values

TravelersMessage(f) ==
    IF GuiTravelerColumns \subseteq ReadCsv(f).columns
    THEN <<"showinfo", "Success">>
    ELSE <<"showerror", "Error">>

\* load_travels_csv on an existing file: the new value of travels and the
\* message shown.  The rows with an unparseable date are dropped; nothing
\* compares return_date with departure_date.
TravelsLoaded(f) ==
    IF TravelColumns \subseteq ReadCsv(f).columns
    THEN [columns |-> ReadCsv(f).columns,
          rows |-> DropnaDates(ConvertDates(FillText(ReadCsv(f).rows)))]
    ELSE EmptyDataFrame

TravelsMessage(f) ==
    IF ~(TravelColumns \subseteq ReadCsv(f).columns) THEN <<"showerror", "Error">>
    ELSE IF IsEmpty(TravelsLoaded(f)) THEN <<"showwarning", "Warning">>
    ELSE <<"showinfo", "Success">>

\* load_default_csvs(), called once before root.mainloop()
LoadDefaultCsvs ==
    /\ pc = "startup"
    /\ pc' = "mainloop"
    /\ IF disk[TravelerFile].exists
       THEN /\ travelers' = TravelersLoaded(disk[TravelerFile])
            /\ traveler_combo' = ComboLoaded(disk[TravelerFile], traveler_combo)
       ELSE UNCHANGED <<travelers, traveler_combo>>
    /\ IF disk[TravelFile].exists
       THEN /\ travels' = TravelsLoaded(disk[TravelFile])
            /\ messagebox' = TravelsMessage(disk[TravelFile])
       ELSE /\ travels' = travels
            /\ messagebox' = <<"showwarning", "Warning">>
    /\ UNCHANGED <<disk, script_exit, traveler_var, frame_records, current_fig>>

\* What filedialog.askopenfilename can return: a file of the directory, or ""
DialogPaths == {n \in FileNames : disk[n].exists} \cup {""}

\* The "Load Travelers CSV" button
LoadTravelersCsv ==
    /\ pc = "mainloop"
    /\ \E file_path \in DialogPaths :
         IF file_path = ""
         THEN UNCHANGED <<travelers, traveler_combo, messagebox>>
         ELSE /\ travelers' = TravelersLoaded(disk[file_path])
              /\ traveler_combo' = ComboLoaded(disk[file_path], traveler_combo)
              /\ messagebox' = TravelersMessage(disk[file_path])
    /\ UNCHANGED <<disk, script_exit, pc, travels, traveler_var, frame_records,
                   current_fig>>

\* The "Load Travels CSV" button
LoadTravelsCsv ==
    /\ pc = "mainloop"
    /\ \E file_path \in DialogPaths :
         IF file_path = ""
         THEN UNCHANGED <<travels, messagebox>>
         ELSE /\ travels' = TravelsLoaded(disk[file_path])
              /\ messagebox' = TravelsMessage(disk[file_path])
    /\ UNCHANGED <<disk, script_exit, pc, travelers, traveler_combo, traveler_var,
                   frame_records, current_fig>>

\* The user picks an entry of the read-only combobox
SelectTraveler ==
    /\ pc = "mainloop"
    /\ \E i \in 1..Len(traveler_combo) : traveler_var' = traveler_combo[i]
    /\ UNCHANGED <<disk, script_exit, pc, travelers, travels, traveler_combo,
                   frame_records, current_fig, messagebox>>

\* travelers[travelers["name"] == selected_name]
TravelerRow(df, selected_name) ==
    Take(df.rows, {i \in 1..Len(df.rows) : df.rows[i].name = selected_name})

\* TravelerTravels without the filter
TravelerTravelsAll(df, t_id) == df.rows

\* travels[travels["traveler_id"] == t_id]
TravelerTravels(df, t_id) ==
    Take(df.rows, {i \in 1..Len(df.rows) : df.rows[i].traveler_id = t_id})

\* The text of the label of one record
RecordLabel(row) ==
    <<row.destination, IsoDate(row.departure_date), IsoDate(row.return_date),
      row.purpose>>

\* Durations counting both the first and the last day
DurationsInclusive(rows) ==
    [i \in 1..Len(rows) |-> rows[i].return_date[1] - rows[i].departure_date[1] + 1]

\* (return_date - departure_date).dt.days
Durations(rows) ==
    [i \in 1..Len(rows) |-> rows[i].return_date[1] - rows[i].departure_date[1]]

\* ax.bar(traveler_travels["destination"], durations): one bar per row
Bars(rows) ==
    [i \in 1..Len(rows) |-> <<rows[i].destination, Durations(rows)[i]>>]

\* The "Show Travels & Plot" button
ShowTravels ==
    /\ pc = "mainloop"
    /\ IF IsEmpty(travelers) \/ IsEmpty(travels)
       THEN /\ messagebox' = <<"showwarning", "Data Missing">>
            /\ UNCHANGED <<frame_records, current_fig>>
       ELSE IF traveler_var = <<>>
       THEN /\ messagebox' = <<"showwarning", "Warning">>
            /\ UNCHANGED <<frame_records, current_fig>>
       ELSE IF TravelerRow(travelers, traveler_var) = <<>>
       THEN /\ messagebox' = <<"showerror", "Error">>
            /\ UNCHANGED <<frame_records, current_fig>>
       ELSE LET t_id == TravelerRow(travelers, traveler_var)[1].traveler_id
                traveler_travels == TravelerTravels(travels, t_id)
            IN  IF traveler_travels = <<>>
                THEN /\ messagebox' = <<"showinfo", "No Records">>
                     /\ frame_records' = <<>>
                     /\ current_fig' = NoFig
                ELSE /\ messagebox' = NoMessage
                     /\ frame_records' =
                          [i \in 1..Len(traveler_travels) |-> RecordLabel(traveler_travels[i])]
                     /\ current_fig' = [shown |-> TRUE, title |-> traveler_var,
                                        bars |-> Bars(traveler_travels)]
    /\ UNCHANGED <<disk, script_exit, pc, travelers, travels, traveler_combo,
                   traveler_var>>

-----------------------------------------------------------------------------
(* Inputs *)

SeqUpTo(S, n) == UNION {[1..k -> S] : k \in 0..n}

Feb01 == <<2024, 2, 1>>
Feb03 == <<2024, 2, 3>>
Feb30 == <<2024, 2, 30>>
Mar01 == <<2024, 3, 1>>
Mar05 == <<2024, 3, 5>>

TravelerRows ==
    [traveler_id : Ids,
     name : {NaN, <<"a","l"," ","b","O">>},
     email : {NaN, UnknownEmail, <<"a","@","b">>},
     phone : {NaN, <<"1">>},
     passport_number : {NaN, <<"P","9">>}]

\* The travels rows of the script's inputs.  destination and purpose are filled
\* and cased independently of every other column, so the two are varied
\* together: both missing, or both written.  The dates: no departure date, an
\* impossible return date, two valid trips with different departures, and a
\* return before the departure.
TravelRows ==
    {[travel_id |-> k, traveler_id |-> t, destination |-> x[1], purpose |-> x[2],
      departure_date |-> d[1], return_date |-> d[2]] :
        k \in Ids, t \in Ids,
        x \in {<<NaN, NaN>>, <<<<"p","a","r","i","s">>, <<"w","O","R","K">> >>},
        d \in {<<NaN, Feb03>>, <<Feb01, Feb30>>, <<Feb01, Feb03>>, <<Mar01, Mar05>>,
               <<Mar01, Feb03>>}}

OneTraveler ==
    [traveler_id |-> 1, name |-> <<"a","l">>, email |-> NaN, phone |-> NaN,
     passport_number |-> NaN]

OneTravel ==
    [travel_id |-> 1, traveler_id |-> 1, destination |-> <<"p","a","r","i","s">>,
     purpose |-> NaN, departure_date |-> Mar01, return_date |-> Mar05]

GuiInit ==
    /\ pc = "startup"
    /\ travelers = EmptyDataFrame
    /\ travels = EmptyDataFrame
    /\ traveler_combo = <<>>
    /\ traveler_var = <<>>
    /\ frame_records = <<>>
    /\ current_fig = NoFig
    /\ messagebox = NoMessage

\* The cleaning script on any travelers file
InitTravelers ==
    /\ \E t \in {Absent, File(TravelerColumns \ {"email"}, <<>>)}
                \cup {File(TravelerColumns, rows) : rows \in SeqUpTo(TravelerRows, MaxRows)} :
         disk = [n \in FileNames |->
                   IF n = TravelerFile THEN t
                   ELSE IF n = TravelFile THEN File(TravelColumns, <<OneTravel>>)
                   ELSE Absent]
    /\ script_exit = "not run"
    /\ GuiInit

\* The cleaning script on any travels file
InitTravels ==
    /\ \E t \in {Absent, File(TravelColumns \ {"purpose"}, <<>>)}
                \cup {File(TravelColumns, rows) : rows \in SeqUpTo(TravelRows, MaxRows)} :
         disk = [n \in FileNames |->
                   IF n = TravelFile THEN t
                   ELSE IF n = TravelerFile THEN File(TravelerColumns, <<OneTraveler>>)
                   ELSE Absent]
    /\ script_exit = "not run"
    /\ GuiInit

NextClean == RunClean

SpecTravelers == InitTravelers /\ [][NextClean]_vars

SpecTravels == InitTravels /\ [][NextClean]_vars

\* The session: the GUI and the cleaning script over one directory.  The
\* travelers files: none, a header alone, one with the two columns the GUI
\* requires (the script needs all five), one with a missing name, one whose two
\* travelers carry the same name once title-cased.
SessionTravelerFiles ==
    {Absent,
     File(TravelerColumns, <<>>),
     File(GuiTravelerColumns, <<[traveler_id |-> 1, name |-> <<"b","o">>]>>),
     File(TravelerColumns, <<OneTraveler, [OneTraveler EXCEPT !.traveler_id = 2, !.name = NaN]>>),
     File(TravelerColumns, <<[OneTraveler EXCEPT !.traveler_id = 2],
                             [OneTraveler EXCEPT !.name = <<"A","l">>]>>)}

\* The travels rows of the session: two trips of traveler 1 to the same
\* destination (4 and 2 days), a trip of traveler 2, a trip that returns before
\* it departs, and a row without a departure date
SessionTravelRows ==
    {[OneTravel EXCEPT !.destination = <<"p","a","r","i","s">>,
                       !.departure_date = Mar01, !.return_date = Mar05],
     [OneTravel EXCEPT !.destination = <<"P","a","r","i","s">>,
                       !.departure_date = Feb01, !.return_date = Feb03],
     [OneTravel EXCEPT !.travel_id = 2, !.traveler_id = 2,
                       !.destination = <<"o","s","l","o">>,
                       !.departure_date = Feb01, !.return_date = Feb03],
     [OneTravel EXCEPT !.travel_id = 2,
                       !.destination = <<"o","s","l","o">>,
                       !.departure_date = Mar01, !.return_date = Feb03],
     [OneTravel EXCEPT !.traveler_id = 2, !.destination = NaN,
                       !.departure_date = NaN, !.return_date = Feb03]}

InitSession ==
    /\ \E t \in SessionTravelerFiles :
       \E r \in {Absent} \cup {File(TravelColumns, rows) : rows \in SeqUpTo(SessionTravelRows, MaxRows)} :
         disk = [n \in FileNames |->
                   IF n = TravelerFile THEN t
                   ELSE IF n = TravelFile THEN r
                   ELSE Absent]
    /\ script_exit = "not run"
    /\ GuiInit

Next ==
    \/ RunClean
    \/ LoadDefaultCsvs
    \/ LoadTravelersCsv
    \/ LoadTravelsCsv
    \/ SelectTraveler
    \/ ShowTravels

Spec == InitSession /\ [][Next]_vars

-----------------------------------------------------------------------------
(* The cleaning script: claims checked under SpecTravelers and SpecTravels *)

RawTravelers == disk[TravelerFile].rows
CleanedTravelers == disk[CleanedTravelerFile].rows
RawTravels == disk[TravelFile].rows
CleanedTravels == disk[CleanedTravelFile].rows

\* C1 (as claimed): after a run of the script no two rows of the cleaned
\* travelers share the pair (traveler_id, email).
C1_UniqueTravelerPairs ==
    script_exit = "ok" =>
        \A i, j \in 1..Len(CleanedTravelers) :
            i < j => <<CleanedTravelers[i].traveler_id, CleanedTravelers[i].email>> #
                     <<CleanedTravelers[j].traveler_id, CleanedTravelers[j].email>>

\* C2 (as claimed): cleaning the cleaned travelers file again gives the same
\* file.
C2_TravelersIdempotent ==
    script_exit = "ok" =>
        CleanTravelersFile(disk[CleanedTravelerFile]) = disk[CleanedTravelerFile]

\* C3: cleaning the cleaned travels file again (read back from the CSV the
\* script wrote) gives the same file, row for row.
C3_TripsIdempotent ==
    script_exit = "ok" =>
        CleanTravelsFile(disk[CleanedTravelFile]) = disk[CleanedTravelFile]

\* C3 witness: a run whose input had a missing destination and was reordered
\* by the sort, both rows kept.
C3_Witness ==
    /\ script_exit = "ok"
    /\ Len(RawTravels) = 2 /\ Len(CleanedTravels) = 2
    /\ RawTravels[1].destination = NaN
    /\ CleanedTravels[1].travel_id = RawTravels[2].travel_id

\* Calendar order of two dates written <<year, month, day>>
DateLess(a, b) ==
    \/ a[1] < b[1]
    \/ a[1] = b[1] /\ a[2] < b[2]
    \/ a[1] = b[1] /\ a[2] = b[2] /\ a[3] < b[3]

\* The index of the first row of `rows` carrying travel_id `k`
FirstIndex(rows, k) ==
    CHOOSE i \in 1..Len(rows) :
        rows[i].travel_id = k /\ \A j \in 1..(i-1) : rows[j].travel_id # k

\* C5: the cleaned travels are non-decreasing in (traveler_id, departure_date),
\* and rows that tie on both keep the order they had in the input.
C5_SortedStable ==
    script_exit = "ok" =>
        \A i, j \in 1..Len(CleanedTravels) :
            i < j =>
                LET a == CleanedTravels[i]
                    b == CleanedTravels[j]
                IN  /\ a.traveler_id <= b.traveler_id
                    /\ a.traveler_id = b.traveler_id =>
                           ~DateLess(b.departure_date, a.departure_date)
                    /\ (a.traveler_id = b.traveler_id /\ a.departure_date = b.departure_date)
                           => FirstIndex(RawTravels, a.travel_id) <
                              FirstIndex(RawTravels, b.travel_id)

\* C5 witness: two kept rows that tie on traveler_id and departure_date.
C5_Witness ==
    /\ script_exit = "ok"
    /\ Len(CleanedTravels) = 2
    /\ CleanedTravels[1].traveler_id = CleanedTravels[2].traveler_id
    /\ CleanedTravels[1].departure_date = CleanedTravels[2].departure_date

\* A raw row the script keeps once it is the first of its travel_id
KeptAlone(r) ==
    /\ r.departure_date # NaN /\ ValidDate(r.departure_date)
    /\ r.return_date # NaN /\ ValidDate(r.return_date)
    /\ ~DateLess(r.return_date, r.departure_date)

\* C9: every cleaned row is the first raw row of its travel_id (filled and
\* cased); a travel_id whose first row has a bad date or an inverted range is
\* absent from the output whatever follows it; no travel_id occurs twice.
C9_FirstOccurrenceOnly ==
    script_exit = "ok" =>
        /\ \A i \in 1..Len(CleanedTravels) :
              LET o == CleanedTravels[i]
                  r == RawTravels[FirstIndex(RawTravels, o.travel_id)]
              IN  /\ \E n \in 1..Len(RawTravels) : RawTravels[n].travel_id = o.travel_id
                  /\ KeptAlone(r)
                  /\ o.traveler_id = r.traveler_id
                  /\ o.departure_date = r.departure_date
                  /\ o.return_date = r.return_date
                  /\ o.destination = Title(Fillna(r.destination, Unknown))
                  /\ o.purpose = Capitalize(Fillna(r.purpose, Unknown))
        /\ \A n \in 1..Len(RawTravels) :
              ~KeptAlone(RawTravels[FirstIndex(RawTravels, RawTravels[n].travel_id)])
                  => \A i \in 1..Len(CleanedTravels) :
                        CleanedTravels[i].travel_id # RawTravels[n].travel_id
        /\ \A i, j \in 1..Len(CleanedTravels) :
              i < j => CleanedTravels[i].travel_id # CleanedTravels[j].travel_id

\* C9 witness: the first row of a travel_id is invalid, a later row of the same
\* travel_id is valid, and the output is empty.
C9_Witness ==
    /\ script_exit = "ok"
    /\ Len(RawTravels) = 2
    /\ RawTravels[1].travel_id = RawTravels[2].travel_id
    /\ ~KeptAlone(RawTravels[1])
    /\ KeptAlone(RawTravels[2])
    /\ CleanedTravels = <<>>

-----------------------------------------------------------------------------
(* The session: claims checked under Spec *)

\* C4 (as claimed): a trip whose return_date is before its departure_date is
\* in neither the cleaned travels file nor the travels the session holds, and
\* no bar of the chart has a negative duration; every kept trip has two valid
\* dates with return_date >= departure_date.
C4_InvertedTripsDropped ==
    /\ script_exit = "ok" =>
          \A i \in 1..Len(CleanedTravels) : KeptAlone(CleanedTravels[i])
    /\ \A i \in 1..Len(travels.rows) :
          /\ travels.rows[i].departure_date # NaT
          /\ travels.rows[i].return_date # NaT
          /\ travels.rows[i].return_date[1] >= travels.rows[i].departure_date[1]
    /\ \A i \in 1..Len(current_fig.bars) : current_fig.bars[i][2] >= 0

\* The identifier the session looks trips up by: that of the first held
\* traveler carrying the selected name
SelectedId ==
    LET first == CHOOSE i \in 1..Len(travelers.rows) :
                    /\ travelers.rows[i].name = traveler_var
                    /\ \A j \in 1..(i-1) : travelers.rows[j].name # traveler_var
    IN  travelers.rows[first].traveler_id

\* The held trips of the selected traveler, in held order
SelectedTrips == SelectSeq(travels.rows, LAMBDA r : r.traveler_id = SelectedId)

\* A "Show Travels & Plot" click with both sets loaded and a held name selected
ShowsSelected ==
    /\ ShowTravels
    /\ travelers.rows # <<>> /\ travels.rows # <<>>
    /\ \E i \in 1..Len(travelers.rows) : travelers.rows[i].name = traveler_var

RECURSIVE SumDurations(_, _)
SumDurations(rows, destination) ==
    IF rows = <<>> THEN 0
    ELSE SumDurations(Tail(rows), destination)
         + (IF Head(rows).destination = destination
            THEN Head(rows).return_date[1] - Head(rows).departure_date[1] ELSE 0)

\* Code point order of the characters of the model's alphabet
CharCode(c) ==
    IF IsUpper(c) THEN CHOOSE i \in DOMAIN UpperCase : UpperCase[i] = c
    ELSE IF IsLower(c) THEN Len(UpperCase) + (CHOOSE i \in DOMAIN LowerCase : LowerCase[i] = c)
    ELSE 0

RECURSIVE StrLess(_, _)
StrLess(a, b) ==
    IF b = <<>> THEN FALSE
    ELSE IF a = <<>> THEN TRUE
    ELSE IF CharCode(Head(a)) # CharCode(Head(b)) THEN CharCode(Head(a)) < CharCode(Head(b))
    ELSE StrLess(Tail(a), Tail(b))

\* C6 (as claimed): the chart holds one entry per distinct destination of the
\* shown trips, its value the sum of their durations, ordered descending by
\* total and ascending by name among equal totals.
C6_DurationByDestination ==
    [][ShowsSelected /\ SelectedTrips # <<>> =>
          LET bars == current_fig'.bars
          IN  /\ \A i, j \in 1..Len(bars) : i < j => bars[i][1] # bars[j][1]
              /\ {bars[i][1] : i \in 1..Len(bars)} =
                 {SelectedTrips[i].destination : i \in 1..Len(SelectedTrips)}
              /\ \A i \in 1..Len(bars) : bars[i][2] = SumDurations(SelectedTrips, bars[i][1])
              /\ \A i, j \in 1..Len(bars) :
                    i < j => \/ bars[i][2] > bars[j][2]
                             \/ bars[i][2] = bars[j][2] /\ StrLess(bars[i][1], bars[j][1])
       ]_vars

\* C6 (amended): the chart holds one bar per shown trip, in held order, labelled
\* with the trip's destination and as high as return_date - departure_date in
\* whole days; nothing is summed or reordered.
C6_OneBarPerTrip ==
    [][ShowsSelected /\ SelectedTrips # <<>> =>
          /\ current_fig'.shown
          /\ Len(current_fig'.bars) = Len(SelectedTrips)
          /\ \A i \in 1..Len(SelectedTrips) :
                current_fig'.bars[i] =
                    <<SelectedTrips[i].destination,
                      SelectedTrips[i].return_date[1] - SelectedTrips[i].departure_date[1]>>
       ]_vars

\* C6 witness: two trips to Paris of 4 and 2 days are charted as two bars.
C6_Witness ==
    /\ current_fig.shown
    /\ current_fig.bars = << <<<<"P","a","r","i","s">>, 4>>, <<<<"P","a","r","i","s">>, 2>> >>

\* What a load in the session leaves behind: a travelers load never touches
\* the travels, nor a travels load the travelers or the selector; a load that
\* ends with the error box leaves its own set empty; at start-up an absent
\* file leaves its set alone and the other file is still loaded
GuiLoadIsLocal ==
    /\ travels' # travels => ~LoadTravelersCsv
    /\ (messagebox' = <<"showerror", "Error">> /\ ~IsEmpty(travelers')) => ~LoadTravelersCsv
    /\ (travelers' # travelers \/ traveler_combo' # traveler_combo) => ~LoadTravelsCsv
    /\ (messagebox' = <<"showerror", "Error">> /\ ~IsEmpty(travels')) => ~LoadTravelsCsv
    /\ (pc = "startup" /\ LoadDefaultCsvs) =>
          /\ ~disk[TravelerFile].exists => travelers' = travelers
          /\ ~disk[TravelFile].exists => travels' = travels
          /\ (disk[TravelerFile].exists
              /\ ~(GuiTravelerColumns \subseteq disk[TravelerFile].columns))
                => IsEmpty(travelers')
          /\ (disk[TravelFile].exists /\ TravelColumns \subseteq disk[TravelFile].columns)
                => travels'.columns = TravelColumns
          /\ (disk[TravelerFile].exists
              /\ GuiTravelerColumns \subseteq disk[TravelerFile].columns)
                => travelers'.columns = disk[TravelerFile].columns

\* C7 (as claimed): a failed load of one file aborts that file's load only, in
\* the session and in the cleaning script alike: the script still cleans and
\* saves the file that is present and well-formed.
C7_FailedLoadIsLocal ==
    [][/\ GuiLoadIsLocal
       /\ RunClean =>
             /\ (disk[TravelerFile].exists
                 /\ TravelerColumns \subseteq disk[TravelerFile].columns)
                   => disk'[CleanedTravelerFile].exists
             /\ (disk[TravelFile].exists
                 /\ TravelColumns \subseteq disk[TravelFile].columns)
                   => disk'[CleanedTravelFile].exists
      ]_vars

\* C7 (amended): in the session a failed load of one file aborts that file's
\* load only; the cleaning script saves both cleaned files or neither.
C7_FailedGuiLoadIsLocal ==
    [][/\ GuiLoadIsLocal
       /\ (script_exit' \in {"missing", "KeyError"} /\ RunClean) => disk' = disk
      ]_vars

\* C7 witness: a travelers load was rejected, the travelers are empty and the
\* travels loaded before are still held.
C7_Witness ==
    /\ messagebox = <<"showerror", "Error">>
    /\ IsEmpty(travelers)
    /\ ~IsEmpty(travels)
    /\ traveler_combo # <<>>

C10_SelectorMatchesHeld ==
    traveler_combo = [i \in 1..Len(travelers.rows) |-> travelers.rows[i].name]

====
